---- MODULE Spec2Model ----
(***************************************************************************)
(* HPS interpreter (src/hsp.py, class HPSInterpreter) as a state machine.  *)
(*                                                                         *)
(* A source line is a sequence of characters, each a one-element string.   *)
(* The non-ASCII characters of the grammar are written as named tokens     *)
(* (Cent for the definition/comment marker, Yen for the currency marker,   *)
(* Times for the repeat marker); each stands for exactly one character.    *)
(* An output line is a sequence whose literal parts (the bracketed tags    *)
(* and fixed words of the f-strings) are single tokens.                    *)
(***************************************************************************)
EXTENDS Integers, Sequences, FiniteSets, TLC

\* ------------------------------------------------------------------------
\* Bounds of the model (not program constants)
\* ------------------------------------------------------------------------
MaxBody == 2
MaxInv == 2
MaxDepth == 3
MaxScript == 3
MaxOut == 4

\* ------------------------------------------------------------------------
\* Program constants
\* ------------------------------------------------------------------------
DefaultPity == 90
SoftPity == 70
DrawCost == 160
\* probabilities are kept in units of 1/100000, so that a percentage literal
\* with up to three decimals divided by 100 is an integer
ProbOne == 100000
PityStep == 2000

\* ------------------------------------------------------------------------
\* Characters
\* ------------------------------------------------------------------------
Cent == "CENT"
Yen == "YEN"
Times == "TIMES"

Digits == {"0", "1", "2", "3", "4", "5", "6", "7", "8", "9"}

Letters ==
  {"a", "b", "c", "d", "e", "f", "g", "h", "i", "j", "k", "l", "m", "n", "o",
   "p", "q", "r", "s", "t", "u", "v", "w", "x", "y", "z", "A", "B", "C", "D",
   "E", "F", "G", "H", "I", "J", "K", "L", "M", "N", "O", "P", "Q", "R", "S",
   "T", "U", "V", "W", "X", "Y", "Z"}

WordChars == Letters \cup Digits \cup {"_"}

NumChars == Digits \cup {"."}

\* \w of the regular expressions
IsWord(c) == c \in WordChars

\* \d
IsDigit(c) == c \in Digits

\* [\d.]
IsNumChar(c) == c \in NumChars

\* \s, and what str.strip() removes
IsSpace(c) == c \in {" ", "\t"}

DigitVal(c) ==
  CASE c = "0" -> 0 [] c = "1" -> 1 [] c = "2" -> 2 [] c = "3" -> 3
    [] c = "4" -> 4 [] c = "5" -> 5 [] c = "6" -> 6 [] c = "7" -> 7
    [] c = "8" -> 8 [] c = "9" -> 9

\* ------------------------------------------------------------------------
\* Evaluation helper: F applied to the value of v, v being evaluated once
\* ------------------------------------------------------------------------
Bind(v, F(_)) == CHOOSE y \in {F(x) : x \in {v}} : TRUE

\* ------------------------------------------------------------------------
\* str methods
\* ------------------------------------------------------------------------
SetMax(S) == CHOOSE m \in S : \A n \in S : n <= m

SetMin(S) == CHOOSE m \in S : \A n \in S : m <= n

StartsWith(s, p) == Len(s) >= Len(p) /\ SubSeq(s, 1, Len(p)) = p

EndsWith(s, p) ==
  Len(s) >= Len(p) /\ SubSeq(s, Len(s) - Len(p) + 1, Len(s)) = p

\* whether p occurs in s at index i
OccursAt(s, p, i) ==
  i >= 1 /\ i + Len(p) - 1 <= Len(s) /\ SubSeq(s, i, i + Len(p) - 1) = p

\* p in s
Contains(s, p) == \E i \in 1..(Len(s) + 1) : OccursAt(s, p, i)

\* str.strip()
Strip(s) ==
  Bind({i \in 1..Len(s) : ~IsSpace(s[i])},
       LAMBDA keep : IF keep = {} THEN << >>
                     ELSE SubSeq(s, SetMin(keep), SetMax(keep)))

\* str.replace(old, new) from index i on, for a non-empty old:
\* non-overlapping occurrences, left to right
RECURSIVE ReplaceFrom(_, _, _, _)
ReplaceFrom(s, old, new, i) ==
  IF i > Len(s) THEN << >>
  ELSE IF OccursAt(s, old, i)
       THEN new \o ReplaceFrom(s, old, new, i + Len(old))
       ELSE <<s[i]>> \o ReplaceFrom(s, old, new, i + 1)

\* str.replace(old, new)
Replace(s, old, new) == ReplaceFrom(s, old, new, 1)

\* str.split(sep) of s[i..] for a one-character sep
RECURSIVE SplitFrom(_, _, _)
SplitFrom(s, sep, i) ==
  Bind({j \in i..Len(s) : s[j] = sep},
       LAMBDA at : IF at = {} THEN <<SubSeq(s, i, Len(s))>>
                   ELSE Bind(SetMin(at),
                             LAMBDA n : <<SubSeq(s, i, n - 1)>>
                                          \o SplitFrom(s, sep, n + 1)))

\* str.split(sep)
Split(s, sep) == SplitFrom(s, sep, 1)

\* [p.strip() for p in parts]
StripAll(parts) == [i \in 1..Len(parts) |-> Strip(parts[i])]

\* ------------------------------------------------------------------------
\* Regular-expression pieces
\* ------------------------------------------------------------------------
\* end of the maximal run of characters of the class that starts at i
\* (i - 1 when s[i] is not in the class)
RECURSIVE WordEnd(_, _)
WordEnd(s, i) ==
  IF i <= Len(s) /\ IsWord(s[i]) THEN WordEnd(s, i + 1) ELSE i - 1

RECURSIVE DigitEnd(_, _)
DigitEnd(s, i) ==
  IF i <= Len(s) /\ IsDigit(s[i]) THEN DigitEnd(s, i + 1) ELSE i - 1

RECURSIVE NumEnd(_, _)
NumEnd(s, i) ==
  IF i <= Len(s) /\ IsNumChar(s[i]) THEN NumEnd(s, i + 1) ELSE i - 1

NoMatch == [found |-> FALSE, g |-> << >>]

\* re.search(mark + r'(\w+)', s[from..]): group 1 of the leftmost match,
\* and where it ends
SearchWordFrom(s, mark, from) ==
  Bind({i \in from..(Len(s) - 1) : s[i] = mark /\ IsWord(s[i + 1])},
       LAMBDA at :
         IF at = {} THEN [found |-> FALSE, g |-> << >>, end |-> 0]
         ELSE Bind(WordEnd(s, SetMin(at) + 1),
                   LAMBDA e : [found |-> TRUE,
                               g |-> SubSeq(s, SetMin(at) + 1, e),
                               end |-> e]))

\* re.search(mark + r'(\w+)', s)
SearchWord(s, mark) ==
  Bind(SearchWordFrom(s, mark, 1),
       LAMBDA m : [found |-> m.found, g |-> m.g])

\* re.findall(mark + r'(\w+)', s[from..])
RECURSIVE FindAllWordsFrom(_, _, _)
FindAllWordsFrom(s, mark, from) ==
  Bind(SearchWordFrom(s, mark, from),
       LAMBDA m : IF ~m.found THEN << >>
                  ELSE <<m.g>> \o FindAllWordsFrom(s, mark, m.end + 1))

\* re.findall(mark + r'(\w+)', s)
FindAllWords(s, mark) == FindAllWordsFrom(s, mark, 1)

\* re.search(prefix + r'(\d+)', s) for a literal prefix
SearchDigits(s, prefix) ==
  Bind({i \in 1..Len(s) :
          /\ OccursAt(s, prefix, i)
          /\ i + Len(prefix) <= Len(s)
          /\ IsDigit(s[i + Len(prefix)])},
       LAMBDA at :
         IF at = {} THEN NoMatch
         ELSE [found |-> TRUE,
               g |-> SubSeq(s, SetMin(at) + Len(prefix),
                            DigitEnd(s, SetMin(at) + Len(prefix)))])

\* re.search(prefix + r'([\d.]+)/', s) for a literal (possibly empty) prefix
SearchPercent(s, prefix) ==
  Bind({i \in 1..Len(s) :
          /\ OccursAt(s, prefix, i)
          /\ i + Len(prefix) <= Len(s)
          /\ IsNumChar(s[i + Len(prefix)])
          /\ NumEnd(s, i + Len(prefix)) < Len(s)
          /\ s[NumEnd(s, i + Len(prefix)) + 1] = "/"},
       LAMBDA at :
         IF at = {} THEN NoMatch
         ELSE [found |-> TRUE,
               g |-> SubSeq(s, SetMin(at) + Len(prefix),
                            NumEnd(s, SetMin(at) + Len(prefix)))])

\* int(ds[1..n])
RECURSIVE ToIntUpTo(_, _)
ToIntUpTo(ds, n) ==
  IF n = 0 THEN 0 ELSE 10 * ToIntUpTo(ds, n - 1) + DigitVal(ds[n])

\* int(digits)
ToInt(ds) == ToIntUpTo(ds, Len(ds))

\* float(text) succeeds: digits with at most one point and at least one
\* digit. (The exponent, sign, underscore, inf and nan forms that float()
\* also accepts need characters no modelled literal puts next to a digit.)
IsFloat(t) ==
  /\ Len(t) > 0
  /\ \A i \in 1..Len(t) : IsNumChar(t[i])
  /\ Cardinality({i \in 1..Len(t) : t[i] = "."}) <= 1
  /\ \E i \in 1..Len(t) : IsDigit(t[i])

\* float(text) in thousandths (decimals past the third are cut)
FloatMilli(t) ==
  Bind(IF \E i \in 1..Len(t) : t[i] = "."
       THEN SetMin({i \in 1..Len(t) : t[i] = "."}) ELSE Len(t) + 1,
       LAMBDA p : 1000 * ToInt(SubSeq(t, 1, p - 1))
                    + ToInt(SubSeq(SubSeq(t, p + 1, Len(t)) \o <<"0", "0", "0">>,
                                   1, 3)))

DigitChars == <<"0", "1", "2", "3", "4", "5", "6", "7", "8", "9">>

\* str(n) for a non-negative integer
RECURSIVE IntStr(_)
IntStr(n) ==
  IF n < 10 THEN <<DigitChars[n + 1]>>
  ELSE IntStr(n \div 10) \o <<DigitChars[(n % 10) + 1]>>

\* sep.join(parts[i..])
RECURSIVE JoinFrom(_, _, _)
JoinFrom(parts, sep, i) ==
  IF i > Len(parts) THEN << >>
  ELSE IF i = Len(parts) THEN parts[i]
       ELSE parts[i] \o sep \o JoinFrom(parts, sep, i + 1)

\* sep.join(parts)
Join(parts, sep) == JoinFrom(parts, sep, 1)

\* ------------------------------------------------------------------------
\* dict: insertion-ordered sequence of [k, v] entries
\* ------------------------------------------------------------------------
Has(d, k) == \E i \in 1..Len(d) : d[i].k = k

Get(d, k) == d[CHOOSE i \in 1..Len(d) : d[i].k = k].v

\* d[k] = v: an existing key keeps its place
Put(d, k, v) ==
  IF Has(d, k)
  THEN [i \in 1..Len(d) |-> IF d[i].k = k THEN [k |-> k, v |-> v] ELSE d[i]]
  ELSE Append(d, [k |-> k, v |-> v])

\* list(d.keys())
Keys(d) == [i \in 1..Len(d) |-> d[i].k]

\* ------------------------------------------------------------------------
\* Data classes
\* ------------------------------------------------------------------------
\* @dataclass Pool
Pool(name, total_prob, items) ==
  [name |-> name, total_prob |-> total_prob, items |-> items]

\* @dataclass Function
Function(name, params, body) ==
  [name |-> name, params |-> params, body |-> body]

\* a float, in units of 1/100000
FloatVal(n) == [kind |-> "float", n |-> n, s |-> << >>]

\* a str
StrVal(s) == [kind |-> "str", n |-> 0, s |-> s]

\* ------------------------------------------------------------------------
\* The random source: the index of the first attempt of a draw sequence on
\* which random.random() falls below the current probability (0: on none),
\* and the index random.choice() picks from the pool's items
\* ------------------------------------------------------------------------
NoRnd == [drop |-> 0, pick |-> 1]

\* ------------------------------------------------------------------------
\* Session: the interpreter's attributes, plus what the model tracks of a
\* call in progress:
\*   exc      the exception being raised (<< >>: none)
\*   hung     the call cannot return (see CallBody)
\*   ret      the list execute() returned, ret_alias whether that list is
\*            self.output_lines itself
\*   rnd_ok   the random outcomes asked for are ones the probabilities allow
\*   rnd_used a draw consumed the random outcomes
\*   events   what the call did, in order
\* ------------------------------------------------------------------------
\* HPSInterpreter.__init__
NewSession ==
  [variables |-> << >>, pools |-> << >>, currency |-> << >>,
   inventory |-> << >>, pity_counter |-> 0, total_spent |-> 0,
   functions |-> << >>, output_lines |-> << >>, in_function |-> FALSE,
   current_function_lines |-> << >>, current_function_name |-> << >>,
   current_function_params |-> << >>,
   exc |-> << >>, hung |-> FALSE, ret |-> << >>, ret_alias |-> TRUE,
   rnd_ok |-> TRUE, rnd_used |-> FALSE, events |-> << >>]

\* what a reset did: whether it came in definition mode, and whether
\* anything had been spent
ResetEvent(s) ==
  [kind |-> "reset", in_function |-> s.in_function,
   spent |-> s.total_spent > 0]

\* a reset that leaves the definition in progress open
ResetKeepsDefinition(s) ==
  [NewSession EXCEPT !.rnd_ok = s.rnd_ok, !.rnd_used = s.rnd_used,
                     !.events = Append(s.events, ResetEvent(s)),
                     !.in_function = s.in_function,
                     !.current_function_name = s.current_function_name]

\* HPSInterpreter.reset: self.__init__() on the live object
ResetSession(s) ==
  [NewSession EXCEPT !.rnd_ok = s.rnd_ok, !.rnd_used = s.rnd_used,
                     !.events = Append(s.events, ResetEvent(s))]

\* self.output_lines.append(l)
Emit(s, l) == [s EXCEPT !.output_lines = Append(@, l)]

\* raise ValueError(msg) and the like
Raise(s, msg) == [s EXCEPT !.exc = <<msg>>]

Note(s, e) == [s EXCEPT !.events = Append(@, e)]

\* the line execute() appends for a caught exception: f"[!] {str(e)}"
ErrLine(msg) == <<"[!]", " ">> \o msg

\* out.startswith('[!]')
IsErrLine(out) == StartsWith(out, <<"[!]">>)

\* out.startswith of the definition-confirmation tag
IsFnLine(out) == StartsWith(out, <<"[FN]">>)

\* ------------------------------------------------------------------------
\* Function definition
\* ------------------------------------------------------------------------
NoNameParens == [found |-> FALSE, name |-> << >>, inner |-> << >>, end |-> 0]

\* re.match(r'(\w+)\(([^)]*)\)', t, from index i): name and parenthesized
\* text; end is the index of the closing parenthesis
NameParens(t, i) ==
  Bind(WordEnd(t, i),
       LAMBDA e :
         IF ~(i <= Len(t) /\ e >= i /\ e < Len(t)) THEN NoNameParens
         ELSE IF t[e + 1] # "(" THEN NoNameParens
         ELSE Bind({j \in (e + 2)..Len(t) : t[j] = ")"},
                   LAMBDA closes :
                     IF closes = {} THEN NoNameParens
                     ELSE [found |-> TRUE, name |-> SubSeq(t, i, e),
                           inner |-> SubSeq(t, e + 2, SetMin(closes) - 1),
                           end |-> SetMin(closes)]))

\* [x.strip() for x in text.split(',')] if text else []
CommaList(text) ==
  IF Len(text) = 0 THEN << >> ELSE StripAll(Split(text, ","))

\* a definition start that enters the function in the table at once
StartRegisters(s, line) ==
  IF ~StartsWith(line, <<Cent, ".">>) THEN Raise(s, "def-shape")
  ELSE Bind(NameParens(line, 3),
            LAMBDA m :
              IF ~m.found THEN Raise(s, "def-shape")
              ELSE [s EXCEPT
                      !.functions =
                        Put(@, m.name,
                            Function(m.name, CommaList(Strip(m.inner)),
                                     << >>)),
                      !.current_function_name = m.name,
                      !.current_function_params = CommaList(Strip(m.inner)),
                      !.current_function_lines = << >>,
                      !.in_function = TRUE])

\* HPSInterpreter._start_function_def
StartFunctionDef(s, line) ==
  IF ~StartsWith(line, <<Cent, ".">>) THEN Raise(s, "def-shape")
  ELSE Bind(NameParens(line, 3),
            LAMBDA m :
              IF ~m.found THEN Raise(s, "def-shape")
              ELSE [s EXCEPT
                      !.current_function_name = m.name,
                      !.current_function_params = CommaList(Strip(m.inner)),
                      !.current_function_lines = << >>,
                      !.in_function = TRUE])

\* HPSInterpreter._end_function_def
EndFunctionDef(s) ==
  [s EXCEPT
     !.functions = Put(@, s.current_function_name,
                       Function(s.current_function_name,
                                s.current_function_params,
                                s.current_function_lines)),
     !.output_lines = Append(@, <<"[FN]", " ", Cent, ".">>
                                  \o s.current_function_name
                                  \o <<" ", "defined">>),
     !.in_function = FALSE,
     !.current_function_name = << >>,
     !.current_function_params = << >>,
     !.current_function_lines = << >>]

\* ------------------------------------------------------------------------
\* Statement handlers
\* ------------------------------------------------------------------------
\* the confirmation line of _define_pool
PoolLine(name, total_prob, items) ==
  <<"[POOL]", " ", "#">> \o name \o <<" | ">> \o IntStr(total_prob)
    \o <<"/1000%", " | ">>
    \o Join([i \in 1..Len(items) |-> <<"$">> \o items[i]], <<",">>)

\* HPSInterpreter._define_pool
DefinePool(s, line) ==
  Bind(SearchPercent(line, <<"(">>),
       LAMBDA prob_match :
         IF ~prob_match.found THEN Raise(s, "pool-shape")
         ELSE IF ~IsFloat(prob_match.g) THEN Raise(s, "float")
         ELSE
         Bind(FindAllWords(line, "$"),
              LAMBDA items :
                IF Len(items) = 0 THEN Raise(s, "pool-items")
                ELSE
                Bind(SearchWord(line, "#"),
                     LAMBDA name_match :
                       IF ~name_match.found THEN Raise(s, "pool-name")
                       ELSE
                       Bind(FloatMilli(prob_match.g),
                            LAMBDA total_prob :
                              [s EXCEPT
                                 !.pools = Put(@, name_match.g,
                                               Pool(name_match.g, total_prob,
                                                    items)),
                                 !.output_lines =
                                   Append(@, PoolLine(name_match.g, total_prob,
                                                      items))]))))

NoAssign == [found |-> FALSE, name |-> << >>, value |-> << >>]

\* re.match(r'#(\w+)\s*=\s*(.+)', line): the name and the stripped value
AssignMatch(line) ==
  IF ~(Len(line) >= 2 /\ line[1] = "#") THEN NoAssign
  ELSE Bind(WordEnd(line, 2),
            LAMBDA e :
              IF e < 2 THEN NoAssign
              ELSE Bind(Strip(SubSeq(line, e + 1, Len(line))),
                        LAMBDA rest :
                          IF Len(rest) >= 2 /\ rest[1] = "="
                          THEN [found |-> TRUE, name |-> SubSeq(line, 2, e),
                                value |-> Strip(Tail(rest))]
                          ELSE NoAssign))

\* the confirmation line of _assign_variable
VarLine(name, value_str) ==
  <<"[VAR]", " ", "#">> \o name \o <<" ", "=", " ">> \o value_str

\* the branches of _assign_variable on the value (lines 233-245)
AssignValue(s, name, value_str) ==
  IF StartsWith(value_str, <<Yen>>)
  THEN Bind(Strip(Tail(value_str)),
            LAMBDA num :
              IF ~IsFloat(num) THEN Raise(s, "float")
              ELSE [s EXCEPT
                      !.currency = Put(@, name, FloatVal(100 * FloatMilli(num))),
                      !.output_lines = Append(@, VarLine(name, value_str))])
  ELSE IF EndsWith(value_str, <<"/">>)
  THEN Bind(SearchPercent(value_str, << >>),
            LAMBDA prob_match :
              IF ~prob_match.found THEN Emit(s, VarLine(name, value_str))
              ELSE IF ~IsFloat(prob_match.g) THEN Raise(s, "float")
              ELSE [s EXCEPT
                      !.variables =
                        Put(@, name, FloatVal(FloatMilli(prob_match.g))),
                      !.output_lines = Append(@, VarLine(name, value_str))])
  ELSE [s EXCEPT
          !.variables =
            Put(@, name, IF IsFloat(value_str)
                         THEN FloatVal(100 * FloatMilli(value_str))
                         ELSE StrVal(value_str)),
          !.output_lines = Append(@, VarLine(name, value_str))]

\* HPSInterpreter._assign_variable
AssignVariable(s, line) ==
  Bind(AssignMatch(line),
       LAMBDA m : IF ~m.found THEN Raise(s, "assign-shape")
                  ELSE AssignValue(s, m.name, m.value))

\* the probability one attempt is decided against (lines 269-272)
CurrentProb(total_prob, pity_counter) ==
  IF pity_counter > SoftPity
  THEN IF total_prob + (pity_counter - SoftPity) * PityStep < ProbOne
       THEN total_prob + (pity_counter - SoftPity) * PityStep
       ELSE ProbOne
  ELSE total_prob

\* random.random() < current_prob can come out true
CanDrop(prob) == prob > 0

\* random.random() < current_prob can come out false
CanMiss(prob) == prob < ProbOne

\* a hit charged as one attempt, whatever its index
HitCostFirst(draw) == DrawCost

\* cost = draw * 160 (line 283)
HitCost(draw) == draw * DrawCost

\* cost = max_pity * 160 (line 291)
PityCost(max_pity) == max_pity * DrawCost

\* the cost assigned (=) where it is to be added (+=)
SpendAssigned(total_spent, cost) == cost

\* self.total_spent += cost (lines 284 and 292)
Spend(total_spent, cost) == total_spent + cost

\* the per-draw trace line (lines 278-280)
TraceLine(draw, drawn, pity_counter) ==
  <<"     ", "draw">> \o IntStr(draw) \o <<":", " ", "$">> \o drawn \o <<" ">>
    \o (IF pity_counter > SoftPity
        THEN <<"[">> \o IntStr(pity_counter) \o <<"]">> ELSE << >>)

\* an else branch that hands out nothing when the cap is 0
PityEndSkipsEmpty(s, target_item, max_pity) ==
  [s EXCEPT
     !.inventory = IF max_pity = 0 THEN @ ELSE Append(@, target_item),
     !.total_spent = Spend(@, PityCost(max_pity)),
     !.output_lines =
       Append(@, <<"[!]", " ", "pity", " | ", "$">> \o target_item
                   \o <<" | ">> \o IntStr(max_pity) \o <<"draws", " ", Yen>>
                   \o IntStr(PityCost(max_pity))),
     !.pity_counter = 0,
     !.events = Append(@, [kind |-> "end", how |-> "pity",
                           attempts |-> max_pity, item |-> target_item])]

\* the else of the for loop of _execute_target (lines 289-294)
PityEnd(s, target_item, max_pity) ==
  [s EXCEPT
     !.inventory = Append(@, target_item),
     !.total_spent = Spend(@, PityCost(max_pity)),
     !.output_lines =
       Append(@, <<"[!]", " ", "pity", " | ", "$">> \o target_item
                   \o <<" | ">> \o IntStr(max_pity) \o <<"draws", " ", Yen>>
                   \o IntStr(PityCost(max_pity))),
     !.pity_counter = 0,
     !.events = Append(@, [kind |-> "end", how |-> "pity",
                           attempts |-> max_pity, item |-> target_item])]

\* the drop branch of the loop (lines 275-288): drawn is what random.choice
\* picked
Drop(s, drawn, target_item, max_pity, draw) ==
  Bind([s EXCEPT
          !.inventory = Append(@, drawn),
          !.output_lines =
            IF draw <= 3 \/ drawn = target_item \/ draw >= max_pity - 2
            THEN Append(@, TraceLine(draw, drawn, s.pity_counter))
            ELSE @],
       LAMBDA s1 :
         IF drawn = target_item
         THEN [s1 EXCEPT
                 !.total_spent = Spend(@, HitCost(draw)),
                 !.output_lines =
                   Append(@, <<"[OK]", " ", "$">> \o target_item \o <<" | ">>
                               \o IntStr(draw) \o <<"draws", " ", Yen>>
                               \o IntStr(HitCost(draw))),
                 !.pity_counter = 0,
                 !.events = Append(@, [kind |-> "end", how |-> "hit",
                                       attempts |-> draw, item |-> drawn])]
         ELSE Note(s1, [kind |-> "end", how |-> "break", attempts |-> draw,
                        item |-> drawn]))

\* a loop that counts a sequence ended by a drop as one attempt
AttemptsOnce(max_pity, rnd) == IF rnd.drop = 0 THEN max_pity ELSE 1

\* the number of attempts the for loop makes (lines 267-274, 288): up to the
\* first on which random.random() falls below the probability, all max_pity
\* of them when it never does
AttemptsMade(max_pity, rnd) == IF rnd.drop = 0 THEN max_pity ELSE rnd.drop

\* the outcomes rnd names are ones the probabilities of the attempts allow,
\* the sequence starting with pity_counter = pity: the drop, if any, at a
\* probability above 0, and every attempt before it (all of them, without a
\* drop) at a probability below 1. The probability never goes down from one
\* attempt to the next, so the last of these attempts decides for all.
Feasible(pool, pity, max_pity, rnd) ==
  IF rnd.drop = 0
  THEN max_pity = 0 \/ CanMiss(CurrentProb(pool.total_prob, pity + max_pity))
  ELSE /\ rnd.drop <= max_pity
       /\ rnd.pick \in 1..Len(pool.items)
       /\ CanDrop(CurrentProb(pool.total_prob, pity + rnd.drop))
       /\ rnd.drop = 1
            \/ CanMiss(CurrentProb(pool.total_prob, pity + rnd.drop - 1))

\* a loop that only the target's drop ends: any other drop goes on to the
\* end of the cap
DrawLoopTargetOnly(s, pool, target_item, max_pity, rnd) ==
  IF ~Feasible(pool, s.pity_counter, max_pity, rnd)
  THEN [s EXCEPT !.rnd_ok = FALSE]
  ELSE IF rnd.drop # 0 /\ pool.items[rnd.pick] = target_item
  THEN Drop([s EXCEPT !.pity_counter = @ + rnd.drop], target_item,
            target_item, max_pity, rnd.drop)
  ELSE PityEnd([s EXCEPT !.pity_counter = @ + max_pity], target_item,
               max_pity)

\* the probabilities random.random() was compared against (line 274): that
\* of the first and that of the last of the n attempts made by a sequence
\* started at pity_counter = pity (no attempt, nothing compared)
Probed(s, pool, pity, n) ==
  IF n = 0 THEN s
  ELSE Note(s, [kind |-> "compared",
                first |-> CurrentProb(pool.total_prob, pity + 1),
                last |-> CurrentProb(pool.total_prob, pity + n)])

\* the for loop of _execute_target (lines 267-294): pity_counter goes up by
\* one per attempt made; the loop is left by the drop branch or, no attempt
\* having dropped, by its else
DrawLoop(s, pool, target_item, max_pity, rnd) ==
  IF ~Feasible(pool, s.pity_counter, max_pity, rnd)
  THEN [s EXCEPT !.rnd_ok = FALSE]
  ELSE Bind(Probed([s EXCEPT
                      !.pity_counter = @ + AttemptsMade(max_pity, rnd)],
                   pool, s.pity_counter, AttemptsMade(max_pity, rnd)),
            LAMBDA s1 :
              IF rnd.drop = 0 THEN PityEnd(s1, target_item, max_pity)
              ELSE Drop(s1, pool.items[rnd.pick], target_item, max_pity,
                        rnd.drop))

\* the head line of _execute_target (line 265)
DrawLine(target_item, pool_name, draw_times, max_pity) ==
  <<"[DRAW]", " ", "$">> \o target_item \o <<" | ", "#">> \o pool_name
    \o <<" | ">> \o IntStr(draw_times) \o <<"x", " | ", "cap">>
    \o IntStr(max_pity)

\* _execute_target once its target and pool are found (lines 257-294)
RunDraw(s, line, target_item, pool_name, rnd) ==
  Bind(SearchDigits(line, <<Times, ":">>),
       LAMBDA times_match :
         Bind(SearchDigits(line, <<"*">>),
              LAMBDA pity_match :
                Bind(IF pity_match.found THEN ToInt(pity_match.g)
                     ELSE DefaultPity,
                     LAMBDA max_pity :
                       Bind([s EXCEPT
                               !.output_lines =
                                 Append(@, DrawLine(target_item, pool_name,
                                                    IF times_match.found
                                                    THEN ToInt(times_match.g)
                                                    ELSE 1,
                                                    max_pity)),
                               !.rnd_used = TRUE,
                               !.events =
                                 Append(@, [kind |-> "draw",
                                            target |-> target_item,
                                            pool |-> pool_name,
                                            cap |-> max_pity,
                                            pity |-> s.pity_counter,
                                            drop |-> rnd.drop])],
                            LAMBDA s1 :
                              IF s.rnd_used THEN [s1 EXCEPT !.rnd_ok = FALSE]
                              ELSE Bind(Get(s.pools, pool_name),
                                        LAMBDA pool :
                                          DrawLoop(s1, pool, target_item,
                                                   max_pity, rnd))))))

\* HPSInterpreter._execute_target
ExecuteTarget(s, line, rnd) ==
  Bind(SearchWord(line, "$"),
       LAMBDA item_match :
         IF ~item_match.found THEN Raise(s, "target-shape")
         ELSE Bind(SearchWord(line, "#"),
                   LAMBDA pool_match :
                     IF ~pool_match.found \/ ~Has(s.pools, pool_match.g)
                     THEN Raise(s, "pool-undefined")
                     ELSE RunDraw(s, line, item_match.g, pool_match.g, rnd)))

\* HPSInterpreter._handle_output. The line written is "[OUT] " and the
\* content; the rendering of #name and {placeholder} tokens inside the
\* content reads the state and changes none of it, and is left unexpanded.
HandleOutput(s, line) ==
  Emit(s, <<"[OUT]", " ">> \o SubSeq(line, 3, Len(line)))

\* HPSInterpreter._handle_math: one line (the result or the evaluation
\* error) when the expression is found, none otherwise; the value itself is
\* not computed
HandleMath(s, line) ==
  IF \E j \in 5..Len(line) : line[j] = ")"
  THEN Emit(s, <<"[CALC]", " ">>
                 \o SubSeq(line, 4,
                           SetMax({j \in 5..Len(line) : line[j] = ")"}) - 1))
  ELSE s

\* HPSInterpreter._handle_return
HandleReturn(s, line) ==
  Bind(Strip(SubSeq(line, 7, Len(line))),
       LAMBDA value :
         IF Len(value) > 0 THEN Emit(s, <<"[RET]", " ">> \o value) ELSE s)

\* the text of a stored value
ValText(v) == IF v.kind = "float" THEN IntStr(v.n) \o <<"e-5">> ELSE v.s

\* "{k: v, ...}" of a dict of values
DictText(d) ==
  Join([i \in 1..Len(d) |-> d[i].k \o <<":">> \o ValText(d[i].v)], <<",">>)

\* HPSInterpreter.get_state: the sections in the order written, a dict's
\* keys in insertion order
GetState(s) ==
  <<"----", "state">>
    \o (IF Len(s.pools) > 0
        THEN <<"pools:">> \o Join(Keys(s.pools), <<",">>) ELSE << >>)
    \o (IF Len(s.functions) > 0
        THEN <<"functions:">> \o Join(Keys(s.functions), <<",">>) ELSE << >>)
    \o (IF Len(s.variables) > 0
        THEN <<"variables:">> \o DictText(s.variables) ELSE << >>)
    \o (IF Len(s.currency) > 0
        THEN <<"currency:">> \o DictText(s.currency) ELSE << >>)
    \o <<"inventory:">> \o Join(s.inventory, <<",">>)
    \o <<"pity:">> \o IntStr(s.pity_counter)
    \o <<"spent:", Yen>> \o IntStr(s.total_spent)
    \o <<"----">>

\* ------------------------------------------------------------------------
\* Dispatch, calls and the execute boundary
\* ------------------------------------------------------------------------
\* the terminator line
EndLine == <<Cent, ".", "E", "n", "d">>

\* re.match(r'^(?!<marker>\.)\w+\([^)]*\)$', line) and '(' in line
CallShape(line) ==
  Len(line) > 0
    /\ Bind(NameParens(line, 1), LAMBDA m : m.found /\ m.end = Len(line))

\* the replace loop of _call_function (lines 359-361), from parameter i on
RECURSIVE Substitute(_, _, _, _)
Substitute(body_line, params, args, i) ==
  IF i > Len(params) THEN body_line
  ELSE IF i <= Len(args)
       THEN Bind(Replace(body_line, <<"#">> \o params[i], args[i]),
                 LAMBDA replaced : Substitute(replaced, params, args, i + 1))
       ELSE Substitute(body_line, params, args, i + 1)

RECURSIVE Execute(_, _, _, _)

\* the body loop of _call_function (lines 353-367), from body line j on.
\* outputs is the list execute() returned. When that list is
\* self.output_lines itself, the inner loop appends to the list it iterates:
\* one element that is not a definition confirmation makes it append one
\* more such element at every step, and the loop cannot end (hung).
RECURSIVE CallBody(_, _, _, _, _, _)
CallBody(s, func, args, j, rnd, depth) ==
  IF j > Len(func.body) THEN s
  ELSE IF Len(Strip(func.body[j])) = 0
  THEN CallBody(s, func, args, j + 1, rnd, depth)
  ELSE
  Bind(Substitute(Strip(func.body[j]), func.params, args, 1),
       LAMBDA body_line :
         Bind(Execute(Note(s, [kind |-> "body", name |-> func.name,
                               index |-> j, stored |-> Strip(func.body[j]),
                               params |-> func.params, args |-> args,
                               line |-> body_line, depth |-> depth + 1]),
                      body_line, rnd, depth + 1),
              LAMBDA r :
                IF r.hung \/ ~r.rnd_ok THEN r
                ELSE IF r.ret_alias
                        /\ \E k \in 1..Len(r.ret) : ~IsFnLine(r.ret[k])
                THEN [r EXCEPT
                        !.hung = TRUE,
                        !.events = Append(@, [kind |-> "hung",
                                              name |-> func.name,
                                              index |-> j,
                                              lines |-> r.ret,
                                              depth |-> depth + 1])]
                ELSE CallBody(Note(r, [kind |-> "out", name |-> func.name,
                                       index |-> j, lines |-> r.ret,
                                       depth |-> depth + 1]),
                              func, args, j + 1, rnd, depth)))

\* a call that writes the substituted lines back into the stored body
RunCallStoring(s, func, args_str, rnd, depth) ==
  Bind(CallBody([s EXCEPT
                   !.output_lines =
                     Append(@, <<"[CALL]", " ", Cent, ".">> \o func.name
                                 \o <<"(">> \o args_str \o <<")">>),
                   !.events =
                     Append(@, [kind |-> "call", name |-> func.name,
                                args |-> CommaList(args_str),
                                echo |-> <<"[CALL]", " ", Cent, ".">>
                                           \o func.name \o <<"(">>
                                           \o args_str \o <<")">>,
                                depth |-> depth + 1])],
                func, CommaList(args_str), 1, rnd, depth),
       LAMBDA r :
         IF r.hung \/ ~r.rnd_ok \/ ~Has(r.functions, func.name) THEN r
         ELSE [r EXCEPT
                 !.functions =
                   Put(@, func.name,
                       Function(func.name, func.params,
                                [j \in 1..Len(func.body) |->
                                   Substitute(Strip(func.body[j]),
                                              func.params,
                                              CommaList(args_str), 1)])),
                 !.events = Append(@, [kind |-> "return",
                                       name |-> func.name,
                                       depth |-> depth + 1])])

\* _call_function once the function is found (lines 349-367)
RunCall(s, func, args_str, rnd, depth) ==
  Bind([s EXCEPT
          !.output_lines = Append(@, <<"[CALL]", " ", Cent, ".">> \o func.name
                                       \o <<"(">> \o args_str \o <<")">>),
          !.events = Append(@, [kind |-> "call", name |-> func.name,
                                args |-> CommaList(args_str),
                                echo |-> <<"[CALL]", " ", Cent, ".">>
                                           \o func.name \o <<"(">>
                                           \o args_str \o <<")">>,
                                depth |-> depth + 1])],
       LAMBDA s1 :
         Bind(CallBody(s1, func, CommaList(args_str), 1, rnd, depth),
              LAMBDA r :
                IF r.hung \/ ~r.rnd_ok THEN r
                ELSE Note(r, [kind |-> "return", name |-> func.name,
                              depth |-> depth + 1])))

\* HPSInterpreter._call_function
CallFunction(s, line, rnd, depth) ==
  Bind(NameParens(line, 1),
       LAMBDA m :
         IF ~m.found THEN s
         ELSE IF ~Has(s.functions, m.name)
         THEN Emit(s, <<"[!]", " ", "undefined-function", ":", " ">> \o m.name)
         ELSE Bind(Get(s.functions, m.name),
                   LAMBDA func : RunCall(s, func, Strip(m.inner), rnd, depth)))

\* line[:40]
First40(line) == SubSeq(line, 1, IF Len(line) < 40 THEN Len(line) ELSE 40)

\* HPSInterpreter._execute_line
ExecuteLine(s, line, rnd, depth) ==
  IF s.in_function /\ ~StartsWith(line, <<Cent, ".">>)
  THEN [s EXCEPT !.current_function_lines = Append(@, line)]
  ELSE IF StartsWith(line, <<Cent, ",">>) THEN HandleOutput(s, line)
  ELSE IF StartsWith(line, <<Cent>>) /\ ~StartsWith(line, <<Cent, ".">>)
  THEN IF Len(Strip(Tail(line))) > 0
       THEN Emit(s, <<"[NOTE]", " ">> \o Strip(Tail(line)))
       ELSE s
  ELSE IF StartsWith(line, <<Cent, ".">>) /\ ~Contains(line, EndLine)
  THEN IF EndsWith(line, <<")">>) THEN StartFunctionDef(s, line) ELSE s
  ELSE IF line = EndLine THEN EndFunctionDef(s)
  ELSE IF CallShape(line) THEN CallFunction(s, line, rnd, depth)
  ELSE IF StartsWith(line, <<"r", "e", "t", "u", "r", "n">>)
  THEN HandleReturn(s, line)
  ELSE IF StartsWith(line, <<"(">>) THEN DefinePool(s, line)
  ELSE IF /\ StartsWith(line, <<"#">>)
          /\ Contains(line, <<"=">>)
          /\ ~StartsWith(line, <<"#", Cent>>)
  THEN AssignVariable(s, line)
  ELSE IF StartsWith(line, <<"<">>) THEN ExecuteTarget(s, line, rnd)
  ELSE IF StartsWith(line, <<"&", "A", "(">>) THEN HandleMath(s, line)
  \* self._handle_condition is not defined: AttributeError
  ELSE IF StartsWith(line, <<"?">>) THEN Raise(s, "no-attribute")
  ELSE IF line = <<"/", "s", "t", "a", "t", "e">> THEN Emit(s, GetState(s))
  ELSE IF line = <<"/", "r", "e", "s", "e", "t">>
  THEN Emit(ResetSession(s), <<"[OK]", " ", "reset">>)
  ELSE IF line \in {<<"e", "x", "i", "t">>, <<"q", "u", "i", "t">>}
  THEN Emit(s, <<"[bye]">>)
  ELSE Emit(s, <<"[?]", " ">> \o First40(line))

\* the try/except of execute (lines 60-65) around the dispatch of a
\* non-empty stripped line. Past MaxDepth nested calls the interpreter's
\* stack is used up: the RecursionError is caught like any other exception.
TryLine(s, line, rnd, depth) ==
  Bind(IF depth > MaxDepth THEN Raise(s, "recursion")
       ELSE ExecuteLine(s, line, rnd, depth),
       LAMBDA r :
         IF r.hung \/ ~r.rnd_ok THEN r
         ELSE IF r.exc # << >>
         THEN [r EXCEPT !.exc = << >>,
                        !.output_lines = Append(@, ErrLine(r.exc)),
                        !.ret = Append(r.output_lines, ErrLine(r.exc)),
                        !.ret_alias = TRUE]
         ELSE [r EXCEPT !.ret = r.output_lines, !.ret_alias = TRUE])

\* HPSInterpreter.execute, called at nesting depth `depth` (0: by the
\* client)
Execute(s, line0, rnd, depth) ==
  Bind(Strip(line0),
       LAMBDA line :
         IF Len(line) = 0
         THEN [s EXCEPT !.output_lines = << >>, !.ret = << >>,
                        !.ret_alias = FALSE]
         ELSE Bind([s EXCEPT
                      !.output_lines = << >>,
                      !.events = Append(@, [kind |-> "line", line |-> line,
                                            depth |-> depth,
                                            in_function |-> s.in_function])],
                   LAMBDA s1 : TryLine(s1, line, rnd, depth)))

\* ------------------------------------------------------------------------
\* run_script
\* ------------------------------------------------------------------------
\* [lines[k].strip() for k in from..to]
StrippedLines(lines, from, to) ==
  [k \in 1..(to - from + 1) |-> Strip(lines[from + k - 1])]

\* the function-definition branch of run_script (lines 77-89): the start
\* line is lines[i]; the result is the session and the index to go on from
\* (0: the exception of _start_function_def leaves run_script)
CollectDef(s, lines, i) ==
  Bind(StartFunctionDef(s, Strip(lines[i])),
       LAMBDA s1 :
         IF s1.exc # << >> THEN [s |-> s1, next |-> 0]
         ELSE
         Bind({k \in (i + 1)..Len(lines) : Strip(lines[k]) = EndLine},
              LAMBDA ends :
                IF ends = {}
                THEN [s |-> [s1 EXCEPT !.current_function_lines =
                                         StrippedLines(lines, i + 1, Len(lines))],
                      next |-> Len(lines) + 2]
                ELSE Bind([s1 EXCEPT !.current_function_lines =
                                       StrippedLines(lines, i + 1,
                                                     SetMin(ends) - 1)],
                          LAMBDA s2 : [s |-> EndFunctionDef(s2),
                                       next |-> SetMin(ends) + 1])))

\* the while loop of run_script (lines 70-95) from lines[i] on; lines is
\* code.strip().split('\n'), rnds[i] the random outcomes for lines[i]
RECURSIVE RunLoop(_, _, _, _)
RunLoop(s, lines, i, rnds) ==
  IF i > Len(lines) THEN s
  ELSE IF Len(Strip(lines[i])) = 0 THEN RunLoop(s, lines, i + 1, rnds)
  ELSE IF StartsWith(Strip(lines[i]), <<Cent, ".">>) /\ ~s.in_function
  THEN Bind(CollectDef(s, lines, i),
            LAMBDA c : IF c.next = 0 THEN c.s
                       ELSE RunLoop(c.s, lines, c.next, rnds))
  ELSE Bind(Execute([s EXCEPT !.rnd_used = FALSE], lines[i], rnds[i], 0),
            LAMBDA r :
              IF r.hung \/ ~r.rnd_ok THEN r
              ELSE IF ~r.rnd_used /\ rnds[i] # NoRnd
              THEN [r EXCEPT !.rnd_ok = FALSE]
              ELSE RunLoop(r, lines, i + 1, rnds))

\* HPSInterpreter.run_script
RunScript(s, lines, rnds) == RunLoop(s, lines, 1, rnds)

\* ------------------------------------------------------------------------
\* The interpreter object and its clients
\* ------------------------------------------------------------------------
VARIABLES
  variables, pools, currency, inventory, pity_counter, total_spent,
  functions, output_lines, in_function, current_function_lines,
  current_function_name, current_function_params,
  hung,      \* the call in progress cannot return
  raised,    \* the last call raised an exception to its caller
  returned,  \* what the last call returned
  events,    \* what the last call did
  last       \* the last call

vars ==
  <<variables, pools, currency, inventory, pity_counter, total_spent,
    functions, output_lines, in_function, current_function_lines,
    current_function_name, current_function_params, hung, raised, returned,
    events, last>>

\* the attributes a client can observe, other than the output buffer
SessionState ==
  <<variables, pools, currency, inventory, pity_counter, total_spent,
    functions, in_function, current_function_lines, current_function_name,
    current_function_params>>

\* the live object, as the handlers see it at the start of a call
Self ==
  [NewSession EXCEPT
     !.variables = variables, !.pools = pools, !.currency = currency,
     !.inventory = inventory, !.pity_counter = pity_counter,
     !.total_spent = total_spent, !.functions = functions,
     !.output_lines = output_lines, !.in_function = in_function,
     !.current_function_lines = current_function_lines,
     !.current_function_name = current_function_name,
     !.current_function_params = current_function_params]

\* the live object after a call
Becomes(r) ==
  /\ variables' = r.variables
  /\ pools' = r.pools
  /\ currency' = r.currency
  /\ inventory' = r.inventory
  /\ pity_counter' = r.pity_counter
  /\ total_spent' = r.total_spent
  /\ functions' = r.functions
  /\ output_lines' = r.output_lines
  /\ in_function' = r.in_function
  /\ current_function_lines' = r.current_function_lines
  /\ current_function_name' = r.current_function_name
  /\ current_function_params' = r.current_function_params
  /\ hung' = r.hung
  /\ events' = r.events

\* the model's bounds on what a session accumulates
Within(r) ==
  /\ Len(r.current_function_lines) <= MaxBody
  /\ \A i \in 1..Len(r.functions) : Len(r.functions[i].v.body) <= MaxBody
  /\ Len(r.inventory) <= MaxInv
  /\ Len(r.output_lines) <= MaxOut

Call(op, line, code) == [op |-> op, line |-> line, code |-> code]

Init ==
  /\ variables = << >>
  /\ pools = << >>
  /\ currency = << >>
  /\ inventory = << >>
  /\ pity_counter = 0
  /\ total_spent = 0
  /\ functions = << >>
  /\ output_lines = << >>
  /\ in_function = FALSE
  /\ current_function_lines = << >>
  /\ current_function_name = << >>
  /\ current_function_params = << >>
  /\ hung = FALSE
  /\ raised = FALSE
  /\ returned = << >>
  /\ events = << >>
  /\ last = Call("init", << >>, << >>)

\* interp.execute(line)
DoExecute(line, rnd) ==
  /\ ~hung
  /\ \E r \in {Execute(Self, line, rnd, 0)} :
       /\ r.rnd_ok
       /\ r.rnd_used \/ rnd = NoRnd
       /\ Within(r)
       /\ Becomes(r)
       /\ returned' = IF r.hung THEN << >> ELSE r.ret
  /\ raised' = FALSE
  /\ last' = Call("execute", line, << >>)

\* interp.run_script(code), code.strip().split('\n') being lines
DoRunScript(lines, rnds) ==
  /\ ~hung
  /\ \E r \in {RunScript(Self, lines, rnds)} :
       /\ r.rnd_ok
       /\ Within(r)
       /\ Becomes([r EXCEPT !.exc = << >>])
       /\ raised' = (r.exc # << >>)
  /\ returned' = << >>
  /\ last' = Call("run_script", << >>, lines)

\* interp.get_state()
DoGetState ==
  /\ ~hung
  /\ returned' = GetState(Self)
  /\ events' = << >>
  /\ raised' = FALSE
  /\ last' = Call("get_state", << >>, << >>)
  /\ UNCHANGED <<SessionState, output_lines, hung>>

\* interp.reset()
DoReset ==
  /\ ~hung
  /\ Becomes(ResetSession(Self))
  /\ returned' = << >>
  /\ raised' = FALSE
  /\ last' = Call("reset", << >>, << >>)

\* ------------------------------------------------------------------------
\* Source lines the clients submit (<cent>, <yen>, <times>: the markers)
\* ------------------------------------------------------------------------
\* (50/:$A $B)#UP
LPoolHalf ==
  <<"(", "5", "0", "/", ":", "$", "A", " ", "$", "B", ")", "#", "U", "P">>

\* (0/:$A)#UP
LPoolZero ==
  <<"(", "0", "/", ":", "$", "A", ")", "#", "U", "P">>

\* (100/:$B)#UP
LPoolSure ==
  <<"(", "1", "0", "0", "/", ":", "$", "B", ")", "#", "U", "P">>

\* <$A,#UP,*0>
LDrawA0 ==
  <<"<", "$", "A", ",", "#", "U", "P", ",", "*", "0", ">">>

\* <$B,#UP,<times>:10,*3>
LDrawB3 ==
  <<"<", "$", "B", ",", "#", "U", "P", ",", Times, ":", "1", "0", ",", "*",
    "3", ">">>

\* <$A,#UP>
LDrawDefault ==
  <<"<", "$", "A", ",", "#", "U", "P", ">">>

\* <$A,#NO,*2>
LDrawNoPool ==
  <<"<", "$", "A", ",", "#", "N", "O", ",", "*", "2", ">">>

\* /reset
LReset ==
  <<"/", "r", "e", "s", "e", "t">>

\* /state
LState ==
  <<"/", "s", "t", "a", "t", "e">>

\* <cent>.f(x,y)
LHeader ==
  <<Cent, ".", "f", "(", "x", ",", "y", ")">>

\* <cent>.End
LEnd ==
  <<Cent, ".", "E", "n", "d">>

\* <cent>,#x
LOutX ==
  <<Cent, ",", "#", "x">>

\* <cent>
LBlankNote ==
  <<Cent>>

\* f(#y,3)
LCallF ==
  <<"f", "(", "#", "y", ",", "3", ")">>

\* ?x
LCond ==
  <<"?", "x">>

\* <cent>.g
LBadHeader ==
  <<Cent, ".", "g">>

\* <cent>.g)
LBadHeaderParen ==
  <<Cent, ".", "g", ")">>

\* (:$A)#Q
LPoolNoPercent ==
  <<"(", ":", "$", "A", ")", "#", "Q">>

\* (5/:)#Q
LPoolNoItems ==
  <<"(", "5", "/", ":", ")", "#", "Q">>

\* (5/:$A)
LPoolNoName ==
  <<"(", "5", "/", ":", "$", "A", ")">>

\* #x = <yen>abc
LBadCurrency ==
  <<"#", "x", " ", "=", " ", Yen, "a", "b", "c">>

\* #x = ./
LBadPercent ==
  <<"#", "x", " ", "=", " ", ".", "/">>

\* <#UP>
LDrawNoTarget ==
  <<"<", "#", "U", "P", ">">>

\* nof()
LCallUndefined ==
  <<"n", "o", "f", "(", ")">>

\* #c = <yen>5
LAssignCurrency ==
  <<"#", "c", " ", "=", " ", Yen, "5">>

\* #p = 5/
LAssignPercent ==
  <<"#", "p", " ", "=", " ", "5", "/">>

\* the non-empty sequences of at most n elements of S
SeqsUpTo(S, n) == UNION {[1..k -> S] : k \in 1..n}

\* no random outcome for any line of a script
NoRnds(lines) == [i \in 1..Len(lines) |-> NoRnd]

\* ------------------------------------------------------------------------
\* Specification of the draw statements: pools, draws and resets
\* ------------------------------------------------------------------------
\* bounds of the random outcomes tried
MaxDrop == 3
MaxPick == 2

RndSet == [drop : 0..MaxDrop, pick : 1..MaxPick]

DrawLines ==
  {LPoolHalf, LPoolZero, LPoolSure, LDrawA0, LDrawB3, LDrawDefault,
   LDrawNoPool, LReset}

\* the scripts: a sure pool and draws on it, a reset before and after a draw
DrawScripts ==
  {<<LPoolSure, LDrawB3>>, <<LDrawB3, LDrawB3>>, <<LDrawB3, LReset>>,
   <<LReset, LDrawB3>>}

\* the outcomes of a script's draws: none, or a drop of the first item on
\* the first attempt
DrawScriptRnd == {NoRnd, [drop |-> 1, pick |-> 1]}

\* the random outcomes tried for a line: only a draw statement consumes any
Outcomes(line) == IF StartsWith(line, <<"<">>) THEN RndSet ELSE {NoRnd}

NextDraw ==
  \/ \E line \in DrawLines : \E rnd \in Outcomes(line) : DoExecute(line, rnd)
  \/ \E lines \in DrawScripts :
       \E rnds \in [1..Len(lines) -> DrawScriptRnd] : DoRunScript(lines, rnds)
  \/ DoReset
  \/ DoGetState

SpecDraw == Init /\ [][NextDraw]_vars

\* ------------------------------------------------------------------------
\* Specification of function definitions and calls
\* ------------------------------------------------------------------------
FnLines ==
  {LHeader, LEnd, LOutX, LBlankNote, LCallF, LCond, LBadHeader}

NextFn ==
  \/ \E line \in FnLines : DoExecute(line, NoRnd)
  \/ DoReset
  \/ DoGetState

SpecFn == Init /\ [][NextFn]_vars

\* ------------------------------------------------------------------------
\* Specification of the statements whose handler fails
\* ------------------------------------------------------------------------
\* one line per failure: pool definition without percent, items, name;
\* assignment with an unparsable currency, percentage; draw without target,
\* on an undefined pool; call of an undefined function; malformed headers
FailingLines ==
  {LPoolNoPercent, LPoolNoItems, LPoolNoName, LBadCurrency, LBadPercent,
   LDrawNoTarget, LDrawNoPool, LCallUndefined, LBadHeader, LBadHeaderParen}

ErrLines ==
  FailingLines
    \cup {LPoolHalf, LPoolSure, LAssignCurrency, LAssignPercent, LState}

NextErr ==
  \/ \E line \in ErrLines : DoExecute(line, NoRnd)
  \/ DoReset
  \/ DoGetState

SpecErr == Init /\ [][NextErr]_vars

\* ------------------------------------------------------------------------
\* Specification of scripts
\* ------------------------------------------------------------------------
ScriptLines == {LHeader, LEnd, LBadHeader, LBlankNote}

NextScript ==
  \/ \E lines \in SeqsUpTo(ScriptLines, MaxScript) :
       DoRunScript(lines, NoRnds(lines))
  \/ DoReset

SpecScript == Init /\ [][NextScript]_vars

\* ------------------------------------------------------------------------
\* Properties
\* ------------------------------------------------------------------------
\* the indices of the events of one kind
Ev(ev, kind) == {i \in 1..Len(ev) : ev[i].kind = kind}

\* a draw sequence ended in the way `how`: "hit", "break" or "pity"
Ended(ev, how) == \E i \in Ev(ev, "end") : ev[i].how = how

\* the number of attempts the draw sequence made
Attempts(ev) == ev[SetMin(Ev(ev, "end"))].attempts

\* the cap of the draw statement
CapOf(ev) == ev[SetMin(Ev(ev, "draw"))].cap

\* a reset was done and no draw sequence ended after it
EndsReset(ev) ==
  /\ Ev(ev, "reset") # {}
  /\ \A i \in Ev(ev, "end") : i < SetMax(Ev(ev, "reset"))

(***************************************************************************)
(* C1: immediately after any draw statement on a defined pool finishes,    *)
(* however its draw sequence ended, pity_counter is exactly 0.             *)
(***************************************************************************)
C1_PityZeroAfterDraw ==
  (last.op = "execute" /\ Ev(events, "end") # {}) => pity_counter = 0

(***************************************************************************)
(* C2, as stated: no operation leaves total_spent smaller than it was      *)
(* before the operation.                                                   *)
(***************************************************************************)
C2_SpentNeverDecreases == [][total_spent' >= total_spent]_vars

(***************************************************************************)
(* C2, amended: an operation that performs no reset leaves total_spent at  *)
(* least what it was; reset() and a '/reset' statement set it to 0, and    *)
(* it is 0 after an operation whose last effect on it is a reset.          *)
(***************************************************************************)
C2_SpentMonotoneUnlessReset ==
  [][/\ Ev(events', "reset") = {} => total_spent' >= total_spent
     /\ EndsReset(events') => total_spent' = 0]_vars

\* a second draw sequence has ended, with several attempts paid for so far
C2_SpentAccumulates ==
  /\ last.op \in {"execute", "run_script"}
  /\ Ev(events, "end") # {}
  /\ Ev(events, "reset") = {}
  /\ Len(inventory) >= 2
  /\ total_spent >= 3 * DrawCost

(***************************************************************************)
(* C3: a draw statement whose sequence hits the target at attempt k adds   *)
(* exactly 160*k to total_spent, and one that exhausts its cap c without   *)
(* any drop adds exactly 160*c.                                            *)
(***************************************************************************)
C3_DrawCost ==
  [][last'.op = "execute" =>
       /\ Ended(events', "hit") =>
            total_spent' = total_spent + 160 * Attempts(events')
       /\ Ended(events', "pity") =>
            /\ Attempts(events') = CapOf(events')
            /\ total_spent' = total_spent + 160 * CapOf(events')]_vars

\* a draw begun with pity_counter above 0 has hit at its second attempt
C3_HitAtSecondAttempt ==
  /\ last.op = "execute"
  /\ Ended(events, "hit")
  /\ Attempts(events) = 2
  /\ events[SetMin(Ev(events, "draw"))].pity > 0

(***************************************************************************)
(* C4: every execute(line) call terminates: a call of a defined function   *)
(* dispatches each stored body line once and then returns, whatever        *)
(* output the body lines produce.                                          *)
(***************************************************************************)
C4_ExecuteTerminates == last.op = "execute" => ~hung

\* the calls made by the line itself
TopCalls(ev) == {i \in Ev(ev, "call") : ev[i].depth = 1}

\* f"  {out}" for each out of outs that is no definition confirmation
RECURSIVE Indented(_, _)
Indented(outs, k) ==
  IF k > Len(outs) THEN << >>
  ELSE IF IsFnLine(outs[k]) THEN Indented(outs, k + 1)
  ELSE <<<<"  ">> \o outs[k]>> \o Indented(outs, k + 1)

\* the output of the body lines the call dispatched, from event i on
RECURSIVE BodyOutput(_, _)
BodyOutput(ev, i) ==
  IF i > Len(ev) THEN << >>
  ELSE IF ev[i].kind = "out" /\ ev[i].depth = 1
  THEN Indented(ev[i].lines, 1) \o BodyOutput(ev, i + 1)
  ELSE BodyOutput(ev, i + 1)

(***************************************************************************)
(* C5: execute of a call line naming a defined function returns the        *)
(* call's echo line followed, in body order, by every output line of the   *)
(* dispatched body lines, each indented once, the definition               *)
(* confirmations left out; nothing, the echo line included, is lost.       *)
(***************************************************************************)
C5_CallOutputComplete ==
  (last.op = "execute" /\ ~hung /\ TopCalls(events) # {}) =>
    returned = <<events[SetMin(TopCalls(events))].echo>>
                 \o BodyOutput(events, 1)

(***************************************************************************)
(* C6: run_script is never terminated by an error: whatever the script     *)
(* holds, a malformed definition-start line or a terminator outside a      *)
(* definition included, run_script raises nothing.                         *)
(***************************************************************************)
C6_RunScriptNeverRaises == last.op = "run_script" => ~raised

(***************************************************************************)
(* C7: for every line whose handler fails on a malformed statement or an   *)
(* unresolved reference, execute returns exactly one diagnostic line and   *)
(* leaves the whole session state unchanged.                               *)
(***************************************************************************)
C7_FailureIsOneDiagnostic ==
  [][(last'.op = "execute" /\ ~in_function /\ last'.line \in FailingLines) =>
       /\ ~raised'
       /\ Len(returned') = 1
       /\ IsErrLine(returned'[1])
       /\ UNCHANGED SessionState]_vars

(***************************************************************************)
(* C8: in definition mode every non-empty line passed to execute other     *)
(* than the terminator is appended, trimmed, to the pending body, changes  *)
(* no other state and returns no output.                                   *)
(***************************************************************************)
C8_DefinitionModeCollects ==
  [][(last'.op = "execute" /\ in_function
        /\ Strip(last'.line) \notin {<< >>, LEnd}) =>
       /\ current_function_lines'
            = Append(current_function_lines, Strip(last'.line))
       /\ returned' = << >>
       /\ UNCHANGED <<variables, pools, currency, inventory, pity_counter,
                      total_spent, functions, in_function,
                      current_function_name, current_function_params>>]_vars

\* the text of `stored` from index i on, with every occurrence of a
\* placeholder "#" + params[k], k <= Len(args), replaced by args[k]
RECURSIVE Positional(_, _, _, _)
Positional(stored, params, args, i) ==
  IF i > Len(stored) THEN << >>
  ELSE Bind({k \in 1..Len(params) :
               k <= Len(args) /\ OccursAt(stored, <<"#">> \o params[k], i)},
            LAMBDA hits :
              IF hits = {}
              THEN <<stored[i]>> \o Positional(stored, params, args, i + 1)
              ELSE Bind(CHOOSE k \in hits :
                          \A m \in hits :
                            \/ Len(params[m]) < Len(params[k])
                            \/ Len(params[m]) = Len(params[k]) /\ k <= m,
                        LAMBDA k :
                          args[k] \o Positional(stored, params, args,
                                                i + 1 + Len(params[k]))))

(***************************************************************************)
(* C9: each body line of a called function is dispatched as the stored     *)
(* line in which every occurrence of a placeholder #pi, i <= n, is         *)
(* replaced by the argument ai, all other text untouched.                  *)
(***************************************************************************)
C9_PositionalSubstitution ==
  last.op = "execute" =>
    \A i \in Ev(events, "body") :
      events[i].line
        = Positional(events[i].stored, events[i].params, events[i].args, 1)

(***************************************************************************)
(* C10: a line beginning with '?' executed outside definition mode is a    *)
(* no-op: the session state is unchanged and no error is produced,         *)
(* neither an exception nor an error diagnostic line.                      *)
(***************************************************************************)
C10_ConditionIsNoOp ==
  [][(last'.op = "execute" /\ ~in_function
        /\ StartsWith(Strip(last'.line), <<"?">>)) =>
       /\ ~raised'
       /\ \A i \in 1..Len(returned') : ~IsErrLine(returned'[i])
       /\ UNCHANGED SessionState]_vars

\* ------------------------------------------------------------------------
\* Specification of resets: a session with pools, values, draws and a
\* definition in progress, reset by reset() and by the '/reset' statement
\* ------------------------------------------------------------------------
ResetLines ==
  {LPoolHalf, LAssignCurrency, LDrawB3, LHeader, LEnd, LReset}

\* the lines fed to a definition in progress
ResetBodyLines == {LEnd, LReset}

NextReset ==
  \/ \E line \in ResetLines : \E rnd \in Outcomes(line) :
        /\ in_function => line \in ResetBodyLines
        /\ DoExecute(line, rnd)
  \/ DoReset
  \/ DoGetState

SpecReset == Init /\ [][NextReset]_vars

\* the state __init__ leaves: nothing stored, counters at 0, no definition
\* in progress
Fresh ==
  /\ variables = << >>
  /\ currency = << >>
  /\ pools = << >>
  /\ functions = << >>
  /\ inventory = << >>
  /\ pity_counter = 0
  /\ total_spent = 0
  /\ ~in_function

\* the last call was reset(), or execute of '/reset' outside definition mode
WasReset ==
  \/ last.op = "reset"
  \/ /\ last.op = "execute"
     /\ Strip(last.line) = LReset
     /\ Ev(events, "reset") # {}

(***************************************************************************)
(* C11: after reset() in any reachable state, a definition in progress     *)
(* included, and after '/reset' executed outside definition mode,          *)
(* variables, currency, pools, functions and inventory are empty,          *)
(* pity_counter and total_spent are 0 and the session is not in            *)
(* definition mode.                                                        *)
(***************************************************************************)
C11_ResetClearsAll == WasReset => Fresh

\* reset() has been called in the middle of a definition, after spending
C11_ResetInDefinition ==
  /\ last.op = "reset"
  /\ \E i \in Ev(events, "reset") : events[i].in_function /\ events[i].spent

\* the pity_counter the draw sequence started from
StartPity(ev) == ev[SetMin(Ev(ev, "draw"))].pity

(***************************************************************************)
(* C12: a draw sequence starts from the pity_counter the session carries,  *)
(* and raises it by exactly 1 per attempt: a sequence left by the drop of  *)
(* a non-target item leaves it at its start value plus the attempts made.  *)
(* pity_counter goes down (to 0) only by a target hit, by the exhaustion   *)
(* of the cap or by a reset; a call that draws nothing and resets nothing  *)
(* leaves it unchanged.                                                    *)
(***************************************************************************)
C12_PityCarriedAndCounted ==
  [][/\ (last'.op = "execute" /\ Ev(events', "draw") # {})
          => StartPity(events') = pity_counter
     /\ (last'.op = "execute" /\ Ended(events', "break"))
          => pity_counter' = pity_counter + Attempts(events')
     /\ pity_counter' < pity_counter
          => \/ Ended(events', "hit")
             \/ Ended(events', "pity")
             \/ Ev(events', "reset") # {}
     /\ (Ev(events', "draw") = {} /\ Ev(events', "reset") = {})
          => pity_counter' = pity_counter]_vars

\* a second draw statement went on from a carried count and was left at its
\* second attempt by a non-target drop
C12_CarriedOverBreak ==
  /\ last.op = "execute"
  /\ Ended(events, "break")
  /\ StartPity(events) > 0
  /\ Attempts(events) = 2
  /\ pity_counter = StartPity(events) + 2

\* ------------------------------------------------------------------------
\* Specification of definitions in progress: lines executed one by one,
\* call lines only while a definition is in progress (where they are
\* collected, so that no call runs)
\* ------------------------------------------------------------------------
DefineLines == {LHeader, LEnd, LBlankNote, LOutX, LCallF, LBadHeader}

NextDefine ==
  \/ \E line \in DefineLines :
        /\ CallShape(line) => in_function
        /\ DoExecute(line, NoRnd)
  \/ DoReset
  \/ DoGetState

SpecDefine == Init /\ [][NextDefine]_vars

\* the line is a call line naming f
CallsName(line, f) ==
  CallShape(Strip(line)) /\ NameParens(Strip(line), 1).name = f

\* the names get_state lists as functions: the comma-separated text between
\* the functions section and the next section
ListedFunctions(text) ==
  IF \A i \in 1..Len(text) : text[i] # "functions:" THEN << >>
  ELSE Bind(CHOOSE i \in 1..Len(text) : text[i] = "functions:",
            LAMBDA i :
              Bind(SetMin({j \in (i + 1)..Len(text) :
                             text[j] \in {"variables:", "currency:",
                                          "inventory:"}}),
                   LAMBDA j : Split(SubSeq(text, i + 1, j - 1), ",")))

Lists(text, f) ==
  \E k \in 1..Len(ListedFunctions(text)) : ListedFunctions(text)[k] = f

(***************************************************************************)
(* C13: while the definition of a function f not defined before is in      *)
(* progress, f is absent from the function table, get_state does not list  *)
(* it, and a call line naming f runs no body (it is collected as a body    *)
(* line); f enters the table only by the step that processes the           *)
(* terminator line, and then with the parameter list its definition-start  *)
(* line declared.                                                          *)
(***************************************************************************)
C13_DefinedOnlyAtTerminator ==
  [][/\ (in_function' /\ ~Has(functions, current_function_name'))
          => ~Has(functions', current_function_name')
     /\ (in_function /\ ~Has(functions, current_function_name))
          => /\ Has(functions', current_function_name)
                  => /\ last'.op = "execute"
                     /\ Strip(last'.line) = EndLine
                     /\ ~in_function'
                     /\ Get(functions', current_function_name).params
                          = current_function_params
             /\ (last'.op = "execute"
                   /\ CallsName(last'.line, current_function_name))
                  => /\ Ev(events', "call") = {}
                     /\ Ev(events', "body") = {}
                     /\ returned' = << >>
                     /\ current_function_lines'
                          = Append(current_function_lines, Strip(last'.line))
             /\ last'.op = "get_state"
                  => ~Lists(returned', current_function_name)]_vars

\* a call line naming the function being defined was collected, the
\* function still absent from the table
C13_CallCollectedNotRun ==
  /\ in_function
  /\ current_function_name = <<"f">>
  /\ ~Has(functions, <<"f">>)
  /\ last.op = "execute"
  /\ CallsName(last.line, <<"f">>)
  /\ Len(current_function_lines) > 0
  /\ current_function_lines[Len(current_function_lines)] = Strip(last.line)
  /\ Ev(events, "body") = {}

\* ------------------------------------------------------------------------
\* Specification of calls: f is defined by a script, g, whose body may call
\* f, line by line; g is called only outside definition mode, so that no
\* function calls itself
\* ------------------------------------------------------------------------
LHeaderG ==
  <<Cent, ".", "g", "(", "a", ")">>

LCallFA ==
  <<"f", "(", "#", "a", ",", "3", ")">>

LCallG ==
  <<"g", "(", "1", ")">>

CallLines == {LHeaderG, LBlankNote, LCallFA, LEnd, LCallG}

CallScripts == {<<LHeader, LBlankNote, LEnd>>}

NextCall ==
  \/ \E line \in CallLines :
        /\ line = LCallG => ~in_function
        /\ DoExecute(line, NoRnd)
  \/ \E lines \in CallScripts :
        /\ ~in_function
        /\ DoRunScript(lines, NoRnds(lines))
  \/ DoReset
  \/ DoGetState

SpecCall == Init /\ [][NextCall]_vars

\* no body line the call dispatched starts or ends a definition or resets
PlainBodies(ev) ==
  \A i \in Ev(ev, "body") :
    /\ ~StartsWith(ev[i].line, <<Cent, ".">>)
    /\ ev[i].line # LReset

\* every function of table d other than `name` is in table e, unchanged
OthersKept(d, e, name) ==
  \A i \in 1..Len(d) :
    d[i].k # name => Has(e, d[i].k) /\ Get(e, d[i].k) = d[i].v

(***************************************************************************)
(* C14: a call that returns leaves the function table as it was (unless a  *)
(* body line it dispatched starts or ends a definition or resets), and     *)
(* every body line it dispatches is substituted into the text stored       *)
(* before the call; a line collected into a definition in progress leaves  *)
(* the table unchanged, and the terminator that stores the definition      *)
(* leaves every other function's parameters and body unchanged.            *)
(***************************************************************************)
C14_StoredFunctionsUntouched ==
  [][/\ (last'.op = "execute" /\ Ev(events', "call") # {} /\ ~hung'
           /\ PlainBodies(events'))
          => /\ functions' = functions
             /\ \A i \in Ev(events', "body") :
                  /\ Has(functions, events'[i].name)
                  /\ events'[i].stored
                       = Strip(Get(functions, events'[i].name)
                                 .body[events'[i].index])
     /\ (last'.op = "execute" /\ in_function /\ in_function')
          => functions' = functions
     /\ (last'.op = "execute" /\ in_function /\ ~in_function')
          => OthersKept(functions, functions', current_function_name)]_vars

\* g, whose stored body line names its parameter, was called, its body
\* calling f in turn, and its stored body still holds the raw text
C14_NestedCallKeepsRawText ==
  /\ last.op = "execute"
  /\ Strip(last.line) = LCallG
  /\ ~hung
  /\ \E i \in Ev(events, "body") :
       /\ events[i].depth = 2
       /\ events[i].name = <<"f">>
  /\ \E i \in Ev(events, "body") :
       /\ events[i].name = <<"g">>
       /\ events[i].stored = LCallFA
       /\ events[i].line # LCallFA
  /\ Has(functions, <<"g">>)
  /\ \E j \in 1..Len(Get(functions, <<"g">>).body) :
       Get(functions, <<"g">>).body[j] = LCallFA

(***************************************************************************)
(* C15: at every draw attempt, for every pool a pool-definition statement  *)
(* can create, the probability the random sample is compared against is    *)
(* above 0 and at most 1.                                                  *)
(***************************************************************************)
C15_ProbabilityInRange ==
  \A i \in Ev(events, "compared") :
    /\ events[i].first > 0
    /\ events[i].first <= ProbOne
    /\ events[i].last > 0
    /\ events[i].last <= ProbOne

(***************************************************************************)
(* C16: during any execute call the nesting depth of function invocations  *)
(* never exceeds 1: a body line dispatched from within a function          *)
(* invocation never itself starts another function invocation.             *)
(***************************************************************************)
C16_NoNestedInvocation ==
  \A i \in Ev(events, "call") : events[i].depth <= 1

\* the draw statement of the call, and how its sequence ended
DrawOf(ev) == ev[SetMin(Ev(ev, "draw"))]

EndOf(ev) == ev[SetMin(Ev(ev, "end"))]

(***************************************************************************)
(* C17: a draw sequence ends at the first attempt on which an item drops,  *)
(* the target or not, with no further attempt: the dropped item is         *)
(* appended, and only the target's drop is charged. The pity acquisition   *)
(* (the target appended, cap * 160 charged) happens if and only if none    *)
(* of the cap attempts produced a drop.                                    *)
(***************************************************************************)
C17_EndsAtFirstDrop ==
  [][(last'.op = "execute" /\ Ev(events', "draw") # {})
       => /\ Ev(events', "end") # {}
          /\ EndOf(events').how = "pity" <=> DrawOf(events').drop = 0
          /\ DrawOf(events').drop # 0
               => /\ EndOf(events').attempts = DrawOf(events').drop
                  /\ inventory' = Append(inventory, EndOf(events').item)
                  /\ EndOf(events').how = "hit"
                       <=> EndOf(events').item = DrawOf(events').target
                  /\ EndOf(events').how = "break"
                       => /\ total_spent' = total_spent
                          /\ pity_counter'
                               = pity_counter + DrawOf(events').drop
          /\ DrawOf(events').drop = 0
               => /\ EndOf(events').attempts = DrawOf(events').cap
                  /\ inventory' = Append(inventory, DrawOf(events').target)
                  /\ total_spent'
                       = total_spent + DrawCost * DrawOf(events').cap]_vars

\* a sequence of cap 3 was ended at its second attempt by the drop of an
\* item that is not the target
C17_NonTargetDropEndsSequence ==
  /\ last.op = "execute"
  /\ Ev(events, "draw") # {}
  /\ Ev(events, "end") # {}
  /\ DrawOf(events).cap = 3
  /\ DrawOf(events).drop = 2
  /\ EndOf(events).how = "break"
  /\ EndOf(events).item # DrawOf(events).target
  /\ inventory # << >>
  /\ inventory[Len(inventory)] = EndOf(events).item

(***************************************************************************)
(* C18: every draw statement that passes its preconditions appends exactly *)
(* one item to the inventory, whatever its cap (0 included), and that item *)
(* is one of the pool's items or the target; a call that draws nothing and *)
(* resets nothing leaves the inventory unchanged.                          *)
(***************************************************************************)
C18_OneItemPerDraw ==
  [][/\ (last'.op = "execute" /\ Ev(events', "draw") # {})
          => /\ Len(inventory') = Len(inventory) + 1
             /\ SubSeq(inventory', 1, Len(inventory)) = inventory
             /\ Has(pools, DrawOf(events').pool)
             /\ \/ inventory'[Len(inventory')] = DrawOf(events').target
                \/ \E k \in 1..Len(Get(pools, DrawOf(events').pool).items) :
                     inventory'[Len(inventory')]
                       = Get(pools, DrawOf(events').pool).items[k]
     /\ (Ev(events', "draw") = {} /\ Ev(events', "reset") = {})
          => inventory' = inventory
     /\ Ev(events', "reset") = {}
          => Len(inventory')
               = Len(inventory) + Cardinality(Ev(events', "draw"))]_vars

\* a draw statement of cap 0 made no attempt and appended its target
C18_CapZeroAppendsTarget ==
  /\ last.op = "execute"
  /\ Ev(events, "draw") # {}
  /\ DrawOf(events).cap = 0
  /\ Ev(events, "compared") = {}
  /\ inventory # << >>
  /\ inventory[Len(inventory)] = DrawOf(events).target

(***************************************************************************)
(* C19: a terminator line executed while the session is not in definition  *)
(* mode leaves the function table unchanged.                               *)
(***************************************************************************)
C19_StrayTerminatorKeepsTable ==
  [][(last'.op = "execute" /\ Strip(last'.line) = EndLine /\ ~in_function)
       => functions' = functions]_vars

\* the session after the lines of a script, from line i on, were handed to
\* execute one by one
RECURSIVE LineFeed(_, _, _)
LineFeed(s, lines, i) ==
  IF i > Len(lines) THEN s
  ELSE IF Len(Strip(lines[i])) = 0 THEN LineFeed(s, lines, i + 1)
  ELSE Bind(Execute(s, Strip(lines[i]), NoRnd, 0),
            LAMBDA r : LineFeed(r, lines, i + 1))

\* the interpreter's attributes of session r
Attributes(r) ==
  <<r.variables, r.pools, r.currency, r.inventory, r.pity_counter,
    r.total_spent, r.functions, r.in_function, r.current_function_lines,
    r.current_function_name, r.current_function_params>>

(***************************************************************************)
(* C20: run_script of a script leaves the session in the state that        *)
(* handing the script's non-empty trimmed lines to execute one by one,     *)
(* from the same state, leaves it in.                                      *)
(***************************************************************************)
C20_ScriptEqualsLineFeed ==
  [][last'.op = "run_script"
       => SessionState' = Attributes(LineFeed(Self, last'.code, 1))]_vars

====
